---- MODULE Spec2Model ----
(***************************************************************************)
(* A model of the chess-interactor crate: the referee of a King+Queen      *)
(* versus King endgame.  Chess::play reads one white move per loop         *)
(* iteration, validates and applies it, checks the unprotected-queen draw, *)
(* computes the black king's answer and returns a GameOver verdict.        *)
(*                                                                         *)
(* Text is modelled as the sequence of its UTF-8 bytes, an ASCII byte      *)
(* written as its character and the two bytes of U+00E9 as "C3" and "A9";  *)
(* squares are records [row, column] with zero-based u8 coordinates, and   *)
(* the board of try_move_black_king is an 8x8 array indexed                *)
(* [row + 1][column + 1].                                                  *)
(***************************************************************************)
EXTENDS Integers, Sequences, FiniteSets, TLC

(***************************************************************************)
(* Bounds of the model.                                                    *)
(***************************************************************************)
\* Largest moves_limit handed to Chess::new in the bounded games.
MaxMovesLimit == 2
\* Number of answer.txt files (initial positions) the bounded games start from.
NumAnswers == 6
\* Number of read_line calls after which the model stops the game that main
\* starts with its limit of 50 moves.
MaxScenarioReads == 2
\* The single-turn games start with both kings in rows and columns
\* 0..KingSpan and the queen anywhere.
KingSpan == 2
\* Number of answer.txt files the games checked for termination start from.
NumFairAnswers == 2
\* The direct calls of try_move_black_king start with the black king in rows
\* and columns 7 - BlackKingSpan .. 7 and the white pieces anywhere.
BlackKingSpan == 1

(***************************************************************************)
(* Characters and bytes.                                                   *)
(***************************************************************************)
ByteTable ==
    ("a" :> 97) @@ ("b" :> 98) @@ ("c" :> 99) @@ ("d" :> 100) @@
    ("e" :> 101) @@ ("f" :> 102) @@ ("g" :> 103) @@ ("h" :> 104) @@
    ("i" :> 105) @@
    ("0" :> 48) @@ ("1" :> 49) @@ ("2" :> 50) @@ ("3" :> 51) @@
    ("4" :> 52) @@ ("5" :> 53) @@ ("6" :> 54) @@ ("7" :> 55) @@
    ("8" :> 56) @@ ("9" :> 57) @@
    ("K" :> 75) @@ ("Q" :> 81) @@ ("X" :> 88) @@ ("#" :> 35) @@
    (" " :> 32) @@ ("\n" :> 10) @@
    ("C3" :> 195) @@ ("A9" :> 169)

Whitespace == {" ", "\n"}

RECURSIVE TrimStart(_)
TrimStart(s) ==
    IF Len(s) > 0 /\ Head(s) \in Whitespace THEN TrimStart(Tail(s)) ELSE s

RECURSIVE TrimEnd(_)
TrimEnd(s) ==
    IF Len(s) > 0 /\ s[Len(s)] \in Whitespace
    THEN TrimEnd(SubSeq(s, 1, Len(s) - 1))
    ELSE s

\* str::trim
Trim(s) == TrimEnd(TrimStart(s))

\* str::is_char_boundary: the start, the end, and every byte that is not a
\* UTF-8 continuation byte (0x80..0xBF).
is_char_boundary(s, index) ==
    IF index = 0 \/ index = Len(s) THEN TRUE
    ELSE IF index > Len(s) THEN FALSE
    ELSE ~(ByteTable[s[index + 1]] >= 128 /\ ByteTable[s[index + 1]] <= 191)

(***************************************************************************)
(* ChessBoardPosition.                                                     *)
(***************************************************************************)
Pos(r, c) == [row |-> r, column |-> c]

Ok(v) == [ok |-> TRUE, value |-> v]
Err(e) == [ok |-> FALSE, err |-> e]

\* from_str with the two coordinates stored in each other's field.
position_from_str_transposed(s) ==
    IF Len(s) # 2 THEN Err("invalid length")
    ELSE IF ~(ByteTable[s[1]] >= ByteTable["a"] /\ ByteTable[s[1]] <= ByteTable["h"])
         THEN Err("invalid column")
    ELSE IF ~(ByteTable[s[2]] >= ByteTable["1"] /\ ByteTable[s[2]] <= ByteTable["8"])
         THEN Err("invalid row")
    ELSE Ok(Pos(ByteTable[s[1]] - ByteTable["a"], ByteTable[s[2]] - ByteTable["1"]))

\* impl FromStr for ChessBoardPosition
position_from_str(s) ==
    IF Len(s) # 2 THEN Err("invalid length")
    ELSE IF ~(ByteTable[s[1]] >= ByteTable["a"] /\ ByteTable[s[1]] <= ByteTable["h"])
         THEN Err("invalid column")
    ELSE IF ~(ByteTable[s[2]] >= ByteTable["1"] /\ ByteTable[s[2]] <= ByteTable["8"])
         THEN Err("invalid row")
    ELSE Ok(Pos(ByteTable[s[2]] - ByteTable["1"], ByteTable[s[1]] - ByteTable["a"]))

\* `(byte) as char` and the decimal text of a one-digit number.
CharOf(byte) == CHOOSE ch \in DOMAIN ByteTable : ByteTable[ch] = byte

\* impl Display for ChessBoardPosition
position_fmt(self) ==
    <<CharOf(self.column + ByteTable["a"]), CharOf(self.row + 1 + ByteTable["0"])>>

Abs(x) == IF x < 0 THEN -x ELSE x

\* Rust integer division truncates toward zero.
TruncDiv(a, b) == IF a >= 0 THEN a \div b ELSE -((-a) \div b)

\* queen_distance without the halving on a diagonal.
queen_distance_unhalved(self, rhs) ==
    LET row_diff == rhs.row - self.row
        column_diff == rhs.column - self.column
    IN  IF row_diff = 0 /\ column_diff = 0
        THEN Ok([distance |-> 0, direction |-> <<0, 0>>])
        ELSE IF row_diff = 0 \/ column_diff = 0 \/ Abs(row_diff) = Abs(column_diff)
        THEN LET distance == Abs(row_diff) + Abs(column_diff)
             IN  Ok([distance |-> distance,
                     direction |-> <<TruncDiv(row_diff, distance),
                                     TruncDiv(column_diff, distance)>>])
        ELSE Err("the position is not reachable by queen move")

\* ChessBoardPosition::queen_distance
queen_distance(self, rhs) ==
    LET row_diff == rhs.row - self.row
        column_diff == rhs.column - self.column
    IN  IF row_diff = 0 /\ column_diff = 0
        THEN Ok([distance |-> 0, direction |-> <<0, 0>>])
        ELSE IF row_diff = 0 \/ column_diff = 0
        THEN LET distance == Abs(row_diff) + Abs(column_diff)
             IN  Ok([distance |-> distance,
                     direction |-> <<TruncDiv(row_diff, distance),
                                     TruncDiv(column_diff, distance)>>])
        ELSE IF Abs(row_diff) = Abs(column_diff)
        THEN LET distance == (Abs(row_diff) + Abs(column_diff)) \div 2
             IN  Ok([distance |-> distance,
                     direction |-> <<TruncDiv(row_diff, distance),
                                     TruncDiv(column_diff, distance)>>])
        ELSE Err("the position is not reachable by queen move")

(***************************************************************************)
(* ChessPiece.                                                             *)
(***************************************************************************)
\* impl FromStr for ChessPiece
piece_from_str(s) ==
    IF s = <<"K">> THEN Ok("King")
    ELSE IF s = <<"Q">> THEN Ok("Queen")
    ELSE Err("invalid chess piece")

(***************************************************************************)
(* GameOver.  Running stands for "play has not returned yet", Panicked for *)
(* "play has unwound with a panic and returns nothing".                    *)
(***************************************************************************)
Running == [verdict |-> "Running", error_message |-> "", input |-> <<>>]
Panicked == [verdict |-> "Panicked", error_message |-> "", input |-> <<>>]
WrongInput(error_message, input) ==
    [verdict |-> "WrongInput", error_message |-> error_message, input |-> input]
TooManyMoves == [verdict |-> "TooManyMoves", error_message |-> "", input |-> <<>>]
Draw == [verdict |-> "Draw", error_message |-> "", input |-> <<>>]
Stalemate == [verdict |-> "Stalemate", error_message |-> "", input |-> <<>>]
Checkmate == [verdict |-> "Checkmate", error_message |-> "", input |-> <<>>]

(***************************************************************************)
(* Chess::try_apply_move.  The result carries the two squares the call can *)
(* write; on Err they are the squares it was called with.                  *)
(***************************************************************************)
MoveOk(wk, wq) ==
    [ok |-> TRUE, err |-> "", white_king_position |-> wk, white_queen_position |-> wq]
MoveErr(e, wk, wq) ==
    [ok |-> FALSE, err |-> e, white_king_position |-> wk, white_queen_position |-> wq]

\* The ChessPiece::King arm compiled with feature "king-moves-enabled".
try_apply_king_move(wk, wq, bk, chess_piece_move) ==
    IF wq = chess_piece_move
    THEN MoveErr("king tried to move over the queen", wk, wq)
    ELSE LET d == queen_distance(wk, chess_piece_move)
         IN  IF ~d.ok THEN MoveErr("king tried to do impossible move", wk, wq)
             ELSE IF d.value.distance = 0 THEN MoveErr("king was not moved", wk, wq)
             ELSE IF d.value.distance > 1 THEN MoveErr("king tried to move too far", wk, wq)
             ELSE LET b == queen_distance(bk, chess_piece_move)
                  IN  IF b.ok /\ b.value.distance = 1
                      THEN MoveErr("white king tried to move next to the black king", wk, wq)
                      ELSE MoveOk(chess_piece_move, wq)

\* Blocks with `>` written for `>=`: a king on the target square itself
\* does not block.
Blocks_strict(to_new_position, to_king) ==
    /\ to_king.ok
    /\ to_new_position.direction = to_king.value.direction
    /\ to_new_position.distance > to_king.value.distance

\* A king or an opposing king on the queen's way: same direction, not farther.
Blocks(to_new_position, to_king) ==
    /\ to_king.ok
    /\ to_new_position.direction = to_king.value.direction
    /\ to_new_position.distance >= to_king.value.distance

\* The Queen arm without its check against the black king.
try_apply_queen_move_ignoring_black_king(wk, wq, bk, chess_piece_move) ==
    LET d == queen_distance(wq, chess_piece_move)
    IN  IF ~d.ok THEN MoveErr("queen tried to do impossible move", wk, wq)
        ELSE IF d.value.distance = 0 THEN MoveErr("queen has not been moved", wk, wq)
        ELSE IF Blocks(d.value, queen_distance(wq, wk))
             THEN MoveErr("queen tried to jump over white king", wk, wq)
        ELSE MoveOk(wk, chess_piece_move)

\* The Queen arm without its check of a zero distance.
try_apply_queen_move_without_zero_check(wk, wq, bk, chess_piece_move) ==
    LET d == queen_distance(wq, chess_piece_move)
    IN  IF ~d.ok THEN MoveErr("queen tried to do impossible move", wk, wq)
        ELSE IF Blocks(d.value, queen_distance(wq, wk))
             THEN MoveErr("queen tried to jump over white king", wk, wq)
        ELSE IF Blocks(d.value, queen_distance(wq, bk))
             THEN MoveErr("queen tried to jump over black king", wk, wq)
        ELSE MoveOk(wk, chess_piece_move)

\* The Queen arm writing the new square before its check of the black king.
try_apply_queen_move_written_early(wk, wq, bk, chess_piece_move) ==
    LET d == queen_distance(wq, chess_piece_move)
    IN  IF ~d.ok THEN MoveErr("queen tried to do impossible move", wk, wq)
        ELSE IF d.value.distance = 0 THEN MoveErr("queen has not been moved", wk, wq)
        ELSE IF Blocks(d.value, queen_distance(wq, wk))
             THEN MoveErr("queen tried to jump over white king", wk, wq)
        ELSE IF Blocks(d.value, queen_distance(wq, bk))
             THEN MoveErr("queen tried to jump over black king", wk, chess_piece_move)
        ELSE MoveOk(wk, chess_piece_move)

\* The ChessPiece::Queen arm.
try_apply_queen_move(wk, wq, bk, chess_piece_move) ==
    LET d == queen_distance(wq, chess_piece_move)
    IN  IF ~d.ok THEN MoveErr("queen tried to do impossible move", wk, wq)
        ELSE IF d.value.distance = 0 THEN MoveErr("queen has not been moved", wk, wq)
        ELSE IF Blocks(d.value, queen_distance(wq, wk))
             THEN MoveErr("queen tried to jump over white king", wk, wq)
        ELSE IF Blocks(d.value, queen_distance(wq, bk))
             THEN MoveErr("queen tried to jump over black king", wk, wq)
        ELSE MoveOk(wk, chess_piece_move)

\* The match with the King arm of the feature build compiled in always.
try_apply_move_feature_ignored(king_moves, wk, wq, bk, chess_piece, chess_piece_move) ==
    IF chess_piece = "King"
    THEN try_apply_king_move(wk, wq, bk, chess_piece_move)
    ELSE try_apply_queen_move(wk, wq, bk, chess_piece_move)

try_apply_move(king_moves, wk, wq, bk, chess_piece, chess_piece_move) ==
    IF chess_piece = "King"
    THEN IF king_moves
         THEN try_apply_king_move(wk, wq, bk, chess_piece_move)
         ELSE MoveErr("king moves are not allowed", wk, wq)
    ELSE try_apply_queen_move(wk, wq, bk, chess_piece_move)

(***************************************************************************)
(* Chess::try_move_black_king: the attack map.                             *)
(***************************************************************************)
EmptyBoard == [r \in 1..8 |-> [c \in 1..8 |-> "Available"]]

Cell(board, row, column) == board[row + 1][column + 1]

SaturatingSub1(x) == IF x = 0 THEN 0 ELSE x - 1
Min7(x) == IF x < 7 THEN x ELSE 7

\* The King cell alone, without the loop over the white king's neighbours.
mark_white_king_cell_only(board, wk) ==
    [r \in 1..8 |-> [c \in 1..8 |->
        IF r - 1 = wk.row /\ c - 1 = wk.column THEN "King" ELSE board[r][c]]]

\* "Mark attackable cells by white king", then the King cell.
mark_white_king(board, wk) ==
    [r \in 1..8 |-> [c \in 1..8 |->
        IF r - 1 = wk.row /\ c - 1 = wk.column THEN "King"
        ELSE IF /\ r - 1 >= SaturatingSub1(wk.row)
                /\ r - 1 <= Min7(wk.row + 1)
                /\ c - 1 >= SaturatingSub1(wk.column)
                /\ c - 1 <= Min7(wk.column + 1)
             THEN "Attackable"
             ELSE board[r][c]]]

\* A sweep that steps over a King cell and goes on marking behind it.
RECURSIVE sweep_past_king(_, _, _, _, _)
sweep_past_king(board, row, column, drow, dcolumn) ==
    LET r == row + drow
        c == column + dcolumn
    IN  IF r < 0 \/ r > 7 \/ c < 0 \/ c > 7 THEN board
        ELSE IF Cell(board, r, c) = "King"
        THEN sweep_past_king(board, r, c, drow, dcolumn)
        ELSE sweep_past_king([board EXCEPT ![r + 1][c + 1] = "Attackable"],
                             r, c, drow, dcolumn)

\* One of the eight loops "Mark attackable cells by white queen ...": step
\* from (row, column) by (drow, dcolumn) while the next cell is on the board,
\* stop at a King cell, mark every other cell met.
RECURSIVE sweep(_, _, _, _, _)
sweep(board, row, column, drow, dcolumn) ==
    LET r == row + drow
        c == column + dcolumn
    IN  IF r < 0 \/ r > 7 \/ c < 0 \/ c > 7 THEN board
        ELSE IF Cell(board, r, c) = "King" THEN board
        ELSE sweep([board EXCEPT ![r + 1][c + 1] = "Attackable"], r, c, drow, dcolumn)

\* The loops in the order of the source: right, left, up, down, up right,
\* down left, down right, up left.
SweepOrder ==
    << <<0, 1>>, <<0, -1>>, <<1, 0>>, <<-1, 0>>,
       <<1, 1>>, <<-1, -1>>, <<-1, 1>>, <<1, -1>> >>

RECURSIVE mark_white_queen(_, _, _)
mark_white_queen(board, wq, i) ==
    IF i > Len(SweepOrder) THEN board
    ELSE mark_white_queen(
             sweep(board, wq.row, wq.column, SweepOrder[i][1], SweepOrder[i][2]),
             wq, i + 1)

attack_map(wk, wq) == mark_white_queen(mark_white_king(EmptyBoard, wk), wq, 1)

(***************************************************************************)
(* Chess::try_move_black_king: the choice of the new square.               *)
(***************************************************************************)
\* The cells the two nested for loops visit, in the order they visit them.
neighbourhood(bk) ==
    LET row_lo == SaturatingSub1(bk.row)
        row_hi == Min7(bk.row + 1)
        column_lo == SaturatingSub1(bk.column)
        column_hi == Min7(bk.column + 1)
        width == column_hi - column_lo + 1
        count == (row_hi - row_lo + 1) * width
    IN  [i \in 1..count |->
            Pos(row_lo + ((i - 1) \div width), column_lo + ((i - 1) % width))]

\* The inner loop body of a first-fit search: a square once found is kept.
visit_first_fit(board, bk, best, cell) ==
    IF cell.row = bk.row /\ cell.column = bk.column THEN best
    ELSE IF best.space = 0 /\ Cell(board, cell.row, cell.column) = "Available"
         THEN [position |-> cell, space |-> 1]
         ELSE best

\* The body of the inner loop, run on the pair (best_new_position,
\* best_new_position_space).
visit(board, bk, best, cell) ==
    IF cell.row = bk.row /\ cell.column = bk.column THEN best
    ELSE IF Cell(board, cell.row, cell.column) = "Available"
         THEN [position |-> cell, space |-> 1]
         ELSE best

RECURSIVE scan(_, _, _, _, _)
scan(board, bk, cells, i, best) ==
    IF i > Len(cells) THEN best
    ELSE scan(board, bk, cells, i + 1, visit(board, bk, best, cells[i]))

best_new_position(board, bk) ==
    scan(board, bk, neighbourhood(bk), 1, [position |-> bk, space |-> 0])

\* The call with the test of the black king's own cell inverted.
try_move_black_king_verdicts_swapped(wk, wq, bk) ==
    LET board == attack_map(wk, wq)
        best == best_new_position(board, bk)
    IN  IF best.space = 0
        THEN IF Cell(board, bk.row, bk.column) = "Available"
             THEN [result |-> "Checkmate", black_king_position |-> bk]
             ELSE [result |-> "Stalemate", black_king_position |-> bk]
        ELSE [result |-> "Ok", black_king_position |-> best.position]

\* The whole call: result is "Ok", "Stalemate" or "Checkmate".
try_move_black_king(wk, wq, bk) ==
    LET board == attack_map(wk, wq)
        best == best_new_position(board, bk)
    IN  IF best.space = 0
        THEN IF Cell(board, bk.row, bk.column) = "Available"
             THEN [result |-> "Stalemate", black_king_position |-> bk]
             ELSE [result |-> "Checkmate", black_king_position |-> bk]
        ELSE [result |-> "Ok", black_king_position |-> best.position]

(***************************************************************************)
(* Chess::play: one iteration of the loop after a line has been read.      *)
(***************************************************************************)
\* The `checkmate` flag of a trimmed line, or the length error.
checkmate_flag(line) ==
    IF Len(line) = 4 /\ line[Len(line)] = "#" THEN Ok(TRUE)
    ELSE IF Len(line) = 3 THEN Ok(FALSE)
    ELSE Err("line is neither of length 3 nor length 4 with '#' at the end")

\* queen_distance(..).map(|(distance, _)| distance).unwrap_or(0)
distance_or_0(a, b) ==
    LET d == queen_distance(a, b) IN IF d.ok THEN d.value.distance ELSE 0

\* The Draw condition with `> 1` written for `!= 1`: a white king off the
\* queen's lines (unwrap_or(0)) counts as protecting her.
unprotected_queen_far_king(wk, wq, bk) ==
    distance_or_0(bk, wq) = 1 /\ distance_or_0(wk, wq) > 1

\* The Draw condition with the test of the white king inverted.
unprotected_queen_inverted(wk, wq, bk) ==
    distance_or_0(bk, wq) = 1 /\ distance_or_0(wk, wq) = 1

\* The condition of the Draw return.
unprotected_queen(wk, wq, bk) ==
    distance_or_0(bk, wq) = 1 /\ distance_or_0(wk, wq) # 1

\* play returning every Err of try_move_black_king as it is.
black_king_verdict_unchecked(result, checkmate, line) ==
    IF result = "Checkmate" THEN Checkmate ELSE Stalemate

\* What play does with an Err of try_move_black_king.
black_king_verdict(result, checkmate, line) ==
    IF result = "Checkmate"
    THEN IF ~checkmate
         THEN WrongInput("no checkmate when expected", line)
         ELSE Checkmate
    ELSE Stalemate

\* `self.moves += 1`
count_move(moves) == moves + 1

\* The limit test with `>` written for `>=`.
limit_reached_late(moves, moves_limit) == moves > moves_limit

\* `self.moves >= self.moves_limit`
limit_reached(moves, moves_limit) == moves >= moves_limit

\* Where an iteration leaves the game.
Step(wk, wq, bk, moves, game_over) ==
    [white_king_position |-> wk, white_queen_position |-> wq,
     black_king_position |-> bk, moves |-> moves, game_over |-> game_over]

\* The loop body after `let line = line.trim()`.
play_line(king_moves, wk, wq, bk, moves, line) ==
    LET checkmate == checkmate_flag(line)
        rejected(e) == Step(wk, wq, bk, moves, WrongInput(e, line))
    IN  IF ~checkmate.ok THEN rejected(checkmate.err)
        ELSE
        \* line[..1] panics unless byte index 1 is a char boundary
        IF ~is_char_boundary(line, 1) THEN Step(wk, wq, bk, moves, Panicked)
        ELSE
        LET chess_piece == piece_from_str(SubSeq(line, 1, 1)) IN
        IF ~chess_piece.ok THEN rejected(chess_piece.err)
        ELSE
        \* line[1..3] panics unless byte indices 1 and 3 are char boundaries
        IF ~is_char_boundary(line, 3) THEN Step(wk, wq, bk, moves, Panicked)
        ELSE
        LET chess_piece_move == position_from_str(SubSeq(line, 2, 3)) IN
        IF ~chess_piece_move.ok THEN rejected(chess_piece_move.err)
        ELSE
        LET applied == try_apply_move(king_moves, wk, wq, bk,
                                      chess_piece.value, chess_piece_move.value)
        IN
        IF ~applied.ok
        THEN Step(applied.white_king_position, applied.white_queen_position, bk,
                  moves, WrongInput(applied.err, line))
        ELSE
        LET new_wk == applied.white_king_position
            new_wq == applied.white_queen_position
        IN
        IF unprotected_queen(new_wk, new_wq, bk)
        THEN Step(new_wk, new_wq, bk, count_move(moves), Draw)
        ELSE
        LET black == try_move_black_king(new_wk, new_wq, bk) IN
        IF black.result # "Ok"
        THEN Step(new_wk, new_wq, bk, count_move(moves),
                  black_king_verdict(black.result, checkmate.value, line))
        ELSE Step(new_wk, new_wq, black.black_king_position, count_move(moves),
                  Running)

(***************************************************************************)
(* The input a solution can send.                                          *)
(***************************************************************************)
Files == {"a", "b", "c", "d", "e", "f", "g", "h"}
Ranks == {"1", "2", "3", "4", "5", "6", "7", "8"}

\* Every well-formed move, with and without the checkmate flag, as read_line
\* returns it: with its newline.
MoveLines ==
    {<<p, f, r>> \o suffix \o <<"\n">> :
        p \in {"K", "Q"}, f \in Files, r \in Ranks, suffix \in {<<>>, <<"#">>}}

\* Lines that fail one of the parsing steps, the empty read of a closed
\* stream, and lines that hold the two-byte character U+00E9.
MalformedLines ==
    { <<>>, <<"\n">>, <<"Q", "e", "\n">>, <<"Q", "e", "7", "8", "\n">>,
      <<"Q", "e", "7", "#", "#", "\n">>, <<"X", "e", "7", "\n">>,
      <<"#", "e", "7", "#", "\n">>, <<"Q", "i", "7", "\n">>,
      <<"Q", "7", "e", "\n">>, <<"Q", "e", "9", "#", "\n">>,
      <<"Q", "e", "0", "\n">>, <<" ", "Q", "e", "7", " ", "\n">>,
      <<"C3", "A9", "7", "\n">>, <<"C3", "A9", "7", "#", "\n">>,
      <<"Q", "C3", "A9", "\n">>, <<"Q", "7", "C3", "A9", "\n">> }

RawLines == MoveLines \cup MalformedLines

(***************************************************************************)
(* The state of a game.                                                    *)
(***************************************************************************)
VARIABLES
    king_moves_enabled,     \* cargo feature "king-moves-enabled"
    white_king_position,
    white_queen_position,
    black_king_position,
    moves,
    moves_limit,
    line,                   \* the line of the last read, trimmed
    reads,                  \* calls of stdin.read_line so far
    game_over               \* what play returned, Running before it returns

vars ==
    <<king_moves_enabled, white_king_position, white_queen_position,
      black_king_position, moves, moves_limit, line, reads, game_over>>

Squares == {Pos(r, c) : r \in 0..7, c \in 0..7}

\* Chess::new followed by the entry of play.
New(king_moves, wk, wq, bk, limit) ==
    /\ king_moves_enabled = king_moves
    /\ white_king_position = wk
    /\ white_queen_position = wq
    /\ black_king_position = bk
    /\ moves = 0
    /\ moves_limit = limit
    /\ line = <<>>
    /\ reads = 0
    /\ game_over = Running

\* `if self.moves >= self.moves_limit { return GameOver::TooManyMoves; }`
LimitReached ==
    /\ game_over = Running
    /\ limit_reached(moves, moves_limit)
    /\ game_over' = TooManyMoves
    /\ UNCHANGED <<king_moves_enabled, white_king_position, white_queen_position,
                   black_king_position, moves, moves_limit, line, reads>>

\* A loop that starts its next iteration when read_line returns Err.
ReadFails_retried ==
    /\ game_over = Running
    /\ ~limit_reached(moves, moves_limit)
    /\ line' = <<>>
    /\ reads' = reads + 1
    /\ UNCHANGED <<king_moves_enabled, white_king_position, white_queen_position,
                   black_king_position, moves, moves_limit, game_over>>

\* read_line returns Err.
ReadFails ==
    /\ game_over = Running
    /\ ~limit_reached(moves, moves_limit)
    /\ line' = <<>>
    /\ reads' = reads + 1
    /\ game_over' = WrongInput("Reading a new line from a solution failed", <<>>)
    /\ UNCHANGED <<king_moves_enabled, white_king_position, white_queen_position,
                   black_king_position, moves, moves_limit>>

\* read_line returns a line (an empty one at the end of the input) and the
\* rest of the loop body runs.
Turn(raw) ==
    /\ game_over = Running
    /\ ~limit_reached(moves, moves_limit)
    /\ line' = Trim(raw)
    /\ \E next \in {play_line(king_moves_enabled, white_king_position,
                             white_queen_position, black_king_position, moves,
                             Trim(raw))} :
           /\ white_king_position' = next.white_king_position
           /\ white_queen_position' = next.white_queen_position
           /\ black_king_position' = next.black_king_position
           /\ moves' = next.moves
           /\ game_over' = next.game_over
    /\ reads' = reads + 1
    /\ UNCHANGED <<king_moves_enabled, moves_limit>>

ReadLine == \E raw \in RawLines : Turn(raw)

Next == LimitReached \/ ReadFails \/ ReadLine

(***************************************************************************)
(* main: the initial squares come from answer.txt, three square tokens in  *)
(* the order white king, white queen, black king.                          *)
(***************************************************************************)
Answers ==
    << << <<"a", "1">>, <<"e", "1">>, <<"e", "8">> >>,
       << <<"a", "3">>, <<"h", "2">>, <<"a", "1">> >>,
       << <<"h", "8">>, <<"c", "8">>, <<"a", "1">> >>,
       << <<"c", "3">>, <<"d", "4">>, <<"f", "6">> >>,
       << <<"f", "6">>, <<"b", "7">>, <<"h", "8">> >>,
       << <<"h", "8">>, <<"b", "2">>, <<"a", "1">> >>,
       << <<"b", "2">>, <<"g", "7">>, <<"a", "1">> >>,
       << <<"e", "5">>, <<"d", "1">>, <<"d", "8">> >>,
       << <<"h", "1">>, <<"a", "8">>, <<"d", "4">> >>,
       << <<"d", "6">>, <<"g", "2">>, <<"e", "8">> >> >>

\* ChessBoardPosition::from_str(position).expect(..)
Parsed(token) == position_from_str(token).value

\* `50`, the moves_limit main hands to Chess::new.
MainMovesLimit == 50

Init ==
    \E king_moves \in BOOLEAN, i \in 1..NumAnswers, limit \in 0..MaxMovesLimit :
        /\ i <= Len(Answers)
        /\ New(king_moves, Parsed(Answers[i][1]), Parsed(Answers[i][2]),
               Parsed(Answers[i][3]), limit)

Spec == Init /\ [][Next]_vars

\* The games on the first answers.  Every call of read_line returns, so an
\* iteration that can run does run.
FairInit ==
    \E king_moves \in BOOLEAN, i \in 1..NumFairAnswers, limit \in 0..MaxMovesLimit :
        /\ i <= Len(Answers)
        /\ New(king_moves, Parsed(Answers[i][1]), Parsed(Answers[i][2]),
               Parsed(Answers[i][3]), limit)

FairSpec == FairInit /\ [][Next]_vars /\ WF_vars(Next)

\* The game main plays on the first answer with king moves disabled, stopped
\* after MaxScenarioReads reads.
ScenarioInit ==
    New(FALSE, Parsed(Answers[1][1]), Parsed(Answers[1][2]),
        Parsed(Answers[1][3]), MainMovesLimit)

ScenarioNext == reads < MaxScenarioReads /\ (ReadFails \/ ReadLine)

ScenarioSpec == ScenarioInit /\ [][ScenarioNext]_vars

\* Single-turn games with king moves disabled: one queen move from each of
\* a wide set of positions.
KingSquares == {Pos(r, c) : r \in 0..KingSpan, c \in 0..KingSpan}

PositionInit ==
    \E wk \in KingSquares, wq \in Squares, bk \in KingSquares :
        /\ wk # wq /\ wk # bk /\ wq # bk
        /\ New(FALSE, wk, wq, bk, 1)

QueenLines == {raw \in MoveLines : raw[1] = "Q"}

QueenTurn == \E raw \in QueenLines : Turn(raw)

PositionSpec == PositionInit /\ [][QueenTurn]_vars

\* Single-turn games compiled with feature "king-moves-enabled": one king
\* move from each of the same positions.  Chess::new takes any three
\* squares, so the two kings may start next to each other.
KingInit ==
    \E wk \in KingSquares, wq \in Squares, bk \in KingSquares :
        /\ wk # wq /\ wk # bk /\ wq # bk
        /\ New(TRUE, wk, wq, bk, 1)

KingLines == {raw \in MoveLines : raw[1] = "K"}

KingTurn == \E raw \in KingLines : Turn(raw)

KingSpec == KingInit /\ [][KingTurn]_vars

\* try_move_black_king called on its own, on a Chess made by Chess::new from
\* any two white squares and a black king near the corner h8; game_over
\* holds the Err the call returns.
BlackKingSquares ==
    {Pos(r, c) : r \in (7 - BlackKingSpan)..7, c \in (7 - BlackKingSpan)..7}

BoardInit ==
    \E wk \in Squares, wq \in Squares, bk \in BlackKingSquares :
        /\ wk # wq /\ wk # bk /\ wq # bk
        /\ New(FALSE, wk, wq, bk, 1)

BlackKingMoves ==
    /\ game_over = Running
    /\ \E answer \in {try_move_black_king(white_king_position, white_queen_position,
                                           black_king_position)} :
           /\ black_king_position' = answer.black_king_position
           /\ game_over' = CASE answer.result = "Stalemate" -> Stalemate
                              [] answer.result = "Checkmate" -> Checkmate
                              [] OTHER -> Running
    /\ UNCHANGED <<king_moves_enabled, white_king_position, white_queen_position,
                   moves, moves_limit, line, reads>>

BoardSpec == BoardInit /\ [][BlackKingMoves]_vars

(***************************************************************************)
(* Vocabulary of the properties, stated on the squares themselves.         *)
(***************************************************************************)
Max(a, b) == IF a >= b THEN a ELSE b
Sign(x) == IF x > 0 THEN 1 ELSE IF x < 0 THEN -1 ELSE 0

\* Number of king steps between two squares.
Chebyshev(a, b) == Max(Abs(a.row - b.row), Abs(a.column - b.column))
Adjacent(a, b) == Chebyshev(a, b) = 1

\* The two squares share a rank, a file or a diagonal.
Aligned(a, b) ==
    \/ a.row = b.row
    \/ a.column = b.column
    \/ Abs(a.row - b.row) = Abs(a.column - b.column)

\* Square k lies on the straight segment from a (exclusive) to b (inclusive).
OnWay(k, a, b) ==
    /\ Aligned(a, b)
    /\ \E i \in 1..Chebyshev(a, b) :
          /\ k.row = a.row + i * Sign(b.row - a.row)
          /\ k.column = a.column + i * Sign(b.column - a.column)

\* The trimmed line carries the checkmate flag.
Flagged(l) == Len(l) = 4 /\ l[4] = "#"

\* The step applied a white move.
Accepted == moves' = moves + 1

\* After the white move of this step the queen stands next to the black king
\* and the white king does not stand next to the queen.
QueenHangs ==
    /\ Adjacent(black_king_position, white_queen_position')
    /\ ~Adjacent(white_king_position', white_queen_position')

\* What try_move_black_king answers in the position after the white move.
BlackAnswer ==
    try_move_black_king(white_king_position', white_queen_position',
                        black_king_position).result

(***************************************************************************)
(* C1.  When the black king has no Available neighbour after an accepted   *)
(* move: Checkmate without '#' on the line gives WrongInput "no checkmate  *)
(* when expected", Checkmate with '#' gives Checkmate, Stalemate gives     *)
(* Stalemate with or without '#'; so a Checkmate verdict is only produced  *)
(* for a line that carries '#'.                                            *)
(***************************************************************************)
C1_CheckmateNeedsFlag ==
    [][/\ (Accepted /\ ~QueenHangs) =>
            \A answer \in {BlackAnswer} :
                /\ (answer = "Checkmate" /\ ~Flagged(line')) =>
                       game_over' = WrongInput("no checkmate when expected", line')
                /\ (answer = "Checkmate" /\ Flagged(line')) =>
                       game_over' = Checkmate
                /\ answer = "Stalemate" => game_over' = Stalemate
       /\ game_over'.verdict = "Checkmate" => Flagged(line')]_vars

C1_Witness == game_over = Checkmate /\ Flagged(line)

(***************************************************************************)
(* C2.  An accepted move sent with '#' after which the position is not     *)
(* checkmate ends the game with WrongInput.                                *)
(***************************************************************************)
C2_FalseCheckmateClaimRejected ==
    [][(Accepted /\ Flagged(line') /\ (QueenHangs \/ BlackAnswer # "Checkmate"))
          => game_over'.verdict = "WrongInput"]_vars

(***************************************************************************)
(* C4.  After an accepted move that leaves the queen next to the black     *)
(* king and not next to the white king, the game ends with Draw and the    *)
(* black king has not moved, with or without '#'.                          *)
(***************************************************************************)
C4_UnprotectedQueenDraws ==
    [][(Accepted /\ QueenHangs) =>
          /\ game_over' = Draw
          /\ black_king_position' = black_king_position]_vars

C4_Witness ==
    /\ game_over = Draw
    /\ Flagged(line)
    /\ ~Aligned(white_king_position, white_queen_position)

RowMajorLE(a, b) == a.row < b.row \/ (a.row = b.row /\ a.column <= b.column)

\* The neighbours of bk that the attack map of (wk, wq) leaves Available.
AvailableNeighbours(wk, wq, bk) ==
    LET pick(board) ==
            {n \in Squares : Adjacent(n, bk) /\ Cell(board, n.row, n.column) = "Available"}
    IN  UNION {pick(board) : board \in {attack_map(wk, wq)}}

\* The black king answered the white move of this step from the squares in
\* `available`, taking the one that `before` puts ahead of all others.
BlackKingTakes(available, before(_, _)) ==
    available # {} =>
        /\ game_over' = Running
        /\ black_king_position' \in available
        /\ \A n \in available : before(black_king_position', n)

\* C3 as claimed: whenever try_move_black_king runs and some neighbour of the
\* black king is Available, the black king moves to the FIRST Available
\* neighbour in increasing row, then increasing column order.
C3_FirstAvailableNeighbour ==
    [][(Accepted /\ ~QueenHangs) =>
          \A available \in {AvailableNeighbours(white_king_position',
                                                white_queen_position',
                                                black_king_position)} :
              BlackKingTakes(available, LAMBDA chosen, n : RowMajorLE(chosen, n))]_vars

\* C3 as amended: whenever try_move_black_king runs and some neighbour of the
\* black king is Available, the black king moves to the LAST Available
\* neighbour in increasing row, then increasing column order.
C3_LastAvailableNeighbour ==
    [][(Accepted /\ ~QueenHangs) =>
          \A available \in {AvailableNeighbours(white_king_position',
                                                white_queen_position',
                                                black_king_position)} :
              BlackKingTakes(available, LAMBDA chosen, n : RowMajorLE(n, chosen))]_vars

\* The black king has answered a queen move and stands on a square the
\* attack map leaves Available.
C3_Witness ==
    /\ game_over = Running
    /\ moves = 1
    /\ line[1] = "Q"
    /\ Cell(attack_map(white_king_position, white_queen_position),
            black_king_position.row, black_king_position.column) = "Available"

\* The first line of the game of main on a1 e1 e8.
Qe7 == <<"Q", "e", "7">>
FirstLineIsQe7 == reads = 1 /\ line = Qe7

\* C5 as claimed: in the game of main on a1 e1 e8 with king moves disabled
\* and a limit of 50 moves, after the first line "Qe7" the line is accepted,
\* the game goes on and the black king has stepped from e8 to an adjacent
\* Available square.
C5_Qe7BlackKingAnswers ==
    FirstLineIsQe7 =>
        /\ moves = 1
        /\ game_over = Running
        /\ Adjacent(black_king_position, Parsed(<<"e", "8">>))
        /\ Cell(attack_map(white_king_position, white_queen_position),
                black_king_position.row, black_king_position.column) = "Available"

\* C5 as amended: in the game of main on a1 e1 e8 with king moves disabled
\* and a limit of 50 moves, after the first line "Qe7" the line is accepted
\* (the queen stands on e7 and one move is counted) and the game ends on that
\* move with Draw, the black king still on e8.
C5_Qe7Draws ==
    FirstLineIsQe7 =>
        /\ moves = 1
        /\ white_queen_position = Parsed(<<"e", "7">>)
        /\ white_king_position = Parsed(<<"a", "1">>)
        /\ black_king_position = Parsed(<<"e", "8">>)
        /\ game_over = Draw

C5_Witness == FirstLineIsQe7 /\ moves = 1 /\ moves_limit = MainMovesLimit

(***************************************************************************)
(* C6.  With king moves disabled the three squares stay pairwise distinct  *)
(* and on the board in every state of every game.                          *)
(***************************************************************************)
C6_DistinctOnBoard ==
    ~king_moves_enabled =>
        /\ white_king_position \in Squares
        /\ white_queen_position \in Squares
        /\ black_king_position \in Squares
        /\ white_king_position # white_queen_position
        /\ white_king_position # black_king_position
        /\ white_queen_position # black_king_position

\* Two queen moves and two black answers have been played.
C6_Witness == ~king_moves_enabled /\ moves = 2 /\ game_over = Running

\* The step moved a white piece.
WhiteMoved ==
    \/ white_queen_position' # white_queen_position
    \/ white_king_position' # white_king_position

(***************************************************************************)
(* C7.  The counter goes up by one exactly in the steps that move a white  *)
(* piece, each of which reads one line; it never exceeds moves_limit; at   *)
(* the limit the next step is TooManyMoves and reads nothing; TooManyMoves *)
(* is produced only at the limit.                                          *)
(***************************************************************************)
C7_MoveCounter ==
    [][/\ moves' <= moves_limit'
       /\ moves' = moves + 1 \/ moves' = moves
       /\ moves' = moves + 1 <=> WhiteMoved
       /\ moves' = moves + 1 => reads' = reads + 1
       /\ moves = moves_limit => (game_over' = TooManyMoves /\ reads' = reads)
       /\ game_over' = TooManyMoves => moves = moves_limit]_vars

C7_Witness ==
    game_over = TooManyMoves /\ moves = moves_limit /\ moves_limit > 0 /\ reads = moves

\* The variants of GameOver.
Verdicts == {"WrongInput", "TooManyMoves", "Draw", "Stalemate", "Checkmate"}

(***************************************************************************)
(* C8.  Every game reaches a verdict, one of the five, after at most       *)
(* moves_limit accepted moves, and nothing changes once it is reached.     *)
(***************************************************************************)
C8_GameEnds ==
    /\ <>(game_over.verdict \in Verdicts)
    /\ [][/\ game_over'.verdict \in Verdicts \cup {"Running"}
          /\ game_over' = Running => moves' = moves + 1
          /\ moves' <= moves_limit'
          /\ game_over.verdict \in Verdicts => UNCHANGED vars]_vars

\* The step read a well-formed line that names the queen.
QueenLineRead ==
    /\ reads' = reads + 1
    /\ Len(line') >= 3
    /\ line'[1] = "Q"
    /\ position_from_str(SubSeq(line', 2, 3)).ok
    /\ Len(line') = 3 \/ Flagged(line')

Target == position_from_str(SubSeq(line', 2, 3)).value

QueenMayMove(wk, wq, bk, target) ==
    /\ Aligned(wq, target)
    /\ target # wq
    /\ ~OnWay(wk, wq, target)
    /\ ~OnWay(bk, wq, target)

(***************************************************************************)
(* C9.  A queen move is accepted iff its target is on a rank, file or      *)
(* diagonal of the queen's square, differs from it, and neither king       *)
(* stands on the segment from the queen's square (exclusive) to the target *)
(* (inclusive); an accepted move puts the queen on the target.             *)
(***************************************************************************)
C9_QueenMoveAccepted ==
    [][QueenLineRead =>
          /\ Accepted <=> QueenMayMove(white_king_position, white_queen_position,
                                       black_king_position, Target)
          /\ Accepted => white_queen_position' = Target
          /\ ~Accepted => /\ game_over'.verdict = "WrongInput"
                          /\ white_queen_position' = white_queen_position]_vars

\* A queen move has been accepted that stops on the square before the white
\* king.
C9_Witness ==
    /\ moves = 1
    /\ line[1] = "Q"
    /\ white_queen_position = Parsed(SubSeq(line, 2, 3))
    /\ Adjacent(white_queen_position, white_king_position)

(***************************************************************************)
(* C10.  A queen move onto the queen's own square is rejected as "queen    *)
(* has not been moved" and the game ends with WrongInput.                  *)
(***************************************************************************)
C10_QueenNotMoved ==
    [][(QueenLineRead /\ Target = white_queen_position) =>
          /\ game_over' = WrongInput("queen has not been moved", line')
          /\ UNCHANGED <<white_king_position, white_queen_position,
                         black_king_position, moves>>]_vars

C10_Witness ==
    /\ game_over.verdict = "WrongInput"
    /\ game_over.error_message = "queen has not been moved"
    /\ SubSeq(game_over.input, 1, 3) = <<"Q">> \o position_fmt(white_queen_position)

\* The step read a well-formed line that names the king.
KingLineRead ==
    /\ reads' = reads + 1
    /\ Len(line') >= 3
    /\ line'[1] = "K"
    /\ position_from_str(SubSeq(line', 2, 3)).ok
    /\ Len(line') = 3 \/ Flagged(line')

(***************************************************************************)
(* C11.  With king moves enabled, a white-king move whose target is the    *)
(* black king's square or a square next to it is rejected and leaves the   *)
(* white king where it was; after every step the white king is neither on  *)
(* nor next to the black king's square of before the step.                 *)
(***************************************************************************)
C11_KingKeepsOffBlackKing ==
    [][(king_moves_enabled /\ KingLineRead) =>
          /\ Chebyshev(Target, black_king_position) <= 1 =>
                 /\ game_over'.verdict = "WrongInput"
                 /\ white_king_position' = white_king_position
                 /\ moves' = moves
          /\ Accepted => Chebyshev(white_king_position', black_king_position) > 1]_vars

(***************************************************************************)
(* C12.  With king moves disabled, every line naming the King with a valid *)
(* target square, with or without '#', is rejected: the game ends with     *)
(* WrongInput "king moves are not allowed" carrying the line and no move   *)
(* is counted; and no step of any game changes the white king's square.    *)
(***************************************************************************)
C12_KingMovesDisabled ==
    [][~king_moves_enabled =>
          /\ KingLineRead =>
                 /\ game_over' = WrongInput("king moves are not allowed", line')
                 /\ moves' = moves
          /\ white_king_position' = white_king_position]_vars

\* A flagged king move has been rejected after an accepted queen move.
C12_Witness ==
    /\ ~king_moves_enabled
    /\ game_over = WrongInput("king moves are not allowed", line)
    /\ line[1] = "K"
    /\ Flagged(line)
    /\ moves = 1

\* The queen on wq attacks square s along a rank, file or diagonal that the
\* white king on wk does not interrupt.
QueenSees(wk, wq, s) == s # wq /\ Aligned(wq, s) /\ ~OnWay(wk, wq, s)

\* The class of square s for white pieces on wk and wq.
Classify(wk, wq, s) ==
    IF s = wk THEN "King"
    ELSE IF Adjacent(s, wk) \/ QueenSees(wk, wq, s) THEN "Attackable"
    ELSE "Available"

(***************************************************************************)
(* C13.  For distinct white king and queen squares the attack map of       *)
(* try_move_black_king holds King on the white king's square, Attackable   *)
(* on the squares next to the white king and on the squares of the queen's *)
(* 8 rays up to the board edge or the white king (the queen's own square   *)
(* is not marked by a ray, the black king stops no ray), and Available     *)
(* everywhere else.                                                        *)
(***************************************************************************)
C13_AttackMap ==
    white_king_position # white_queen_position =>
        \A board \in {attack_map(white_king_position, white_queen_position)} :
            \A s \in Squares :
                Cell(board, s.row, s.column) =
                    Classify(white_king_position, white_queen_position, s)

\* try_move_black_king has returned Checkmate on a board where the black king
\* stands on a ray of the queen that goes on Attackable behind it, the white
\* king stands on another ray with squares behind it, and the queen's own
\* square is Available.
C13_Witness ==
    /\ game_over = Checkmate
    /\ \A board \in {attack_map(white_king_position, white_queen_position)} :
           /\ \E s \in Squares :
                  /\ s # black_king_position
                  /\ OnWay(black_king_position, white_queen_position, s)
                  /\ Cell(board, s.row, s.column) = "Attackable"
           /\ \E s \in Squares :
                  /\ s # white_king_position
                  /\ OnWay(white_king_position, white_queen_position, s)
           /\ Cell(board, white_queen_position.row, white_queen_position.column)
                  = "Available"

(***************************************************************************)
(* C14.  A call of try_move_black_king with no Available neighbour of the  *)
(* black king returns Stalemate iff the black king's own square is         *)
(* Available and Checkmate otherwise, and leaves the black king in place;  *)
(* a call with an Available neighbour returns neither and moves the black  *)
(* king.                                                                   *)
(***************************************************************************)
C14_StalemateOrCheckmate ==
    [][\A available \in {AvailableNeighbours(white_king_position,
                                              white_queen_position,
                                              black_king_position)} :
          \A own \in {Cell(attack_map(white_king_position, white_queen_position),
                           black_king_position.row, black_king_position.column)} :
              /\ available = {} =>
                     /\ game_over' = Stalemate <=> own = "Available"
                     /\ game_over' = Checkmate <=> own # "Available"
                     /\ black_king_position' = black_king_position
              /\ available # {} =>
                     /\ game_over' = Running
                     /\ black_king_position' # black_king_position]_vars

\* Stalemate: the black king stands on an Available square in the corner,
\* with the queen a knight's move away.
C14_Witness ==
    /\ game_over = Stalemate
    /\ black_king_position = Pos(7, 7)
    /\ ~Aligned(white_queen_position, black_king_position)
    /\ Chebyshev(white_queen_position, black_king_position) = 2

\* What C15 says of queen_distance(a, b).
DistanceLaw(a, b) ==
    \A d \in {queen_distance(a, b)} :
        /\ ~d.ok <=> ~Aligned(a, b)
        /\ d.ok =>
               /\ d.value.distance = Max(Abs(b.row - a.row), Abs(b.column - a.column))
               /\ d.value.direction[1] \in {-1, 0, 1}
               /\ d.value.direction[2] \in {-1, 0, 1}
               /\ a.row + d.value.distance * d.value.direction[1] = b.row
               /\ a.column + d.value.distance * d.value.direction[2] = b.column
        /\ a = b => d = Ok([distance |-> 0, direction |-> <<0, 0>>])

(***************************************************************************)
(* C15.  queen_distance(a, b) fails iff a and b share no rank, file or     *)
(* diagonal; otherwise it returns d = max(|drow|, |dcolumn|) and a         *)
(* direction with components in {-1, 0, 1} such that a + d * direction = b;*)
(* queen_distance(a, a) = (0, (0, 0)).  Stated of every ordered pair of    *)
(* the three squares of a state, the two white squares ranging over all    *)
(* pairs of squares.                                                       *)
(***************************************************************************)
C15_QueenDistance ==
    \A a \in {white_king_position, white_queen_position, black_king_position} :
        \A b \in {white_king_position, white_queen_position, black_king_position} :
            DistanceLaw(a, b)

\* A checkmate given by the queen from two or more squares away, down a
\* file or a diagonal as seen from the black king, with the white king off
\* the queen's lines.
C15_Witness ==
    /\ game_over = Checkmate
    /\ \A d \in {queen_distance(black_king_position, white_queen_position)} :
           d.ok /\ d.value.distance >= 2 /\ d.value.direction[1] = -1
    /\ ~queen_distance(white_king_position, white_queen_position).ok

\* What C16 says of the token t: the parser's answer, and for a letter a-h
\* followed by a digit 1-8 the square and its text.
TokenLaw(t) ==
    \A parsed \in {position_from_str(t)} :
        IF Len(t) # 2 THEN parsed = Err("invalid length")
        ELSE IF t[1] \notin Files THEN parsed = Err("invalid column")
        ELSE IF t[2] \notin Ranks THEN parsed = Err("invalid row")
        ELSE /\ parsed.ok
             /\ parsed.value.column = ByteTable[t[1]] - ByteTable["a"]
             /\ parsed.value.row = ByteTable[t[2]] - ByteTable["1"]
             /\ position_fmt(parsed.value) = t

\* Every slice of the line read last.
Tokens == {SubSeq(line, i, j) : i \in 1..(Len(line) + 1), j \in 0..Len(line)}

(***************************************************************************)
(* C16.  A token of a letter a-h and a digit 1-8 parses to the square with *)
(* column = letter - 'a' and row = digit - '1', and the square formats     *)
(* back to the token; every on-board square formats to a token that parses *)
(* back to it; a token whose length (in bytes) is not 2 fails with         *)
(* "invalid length", else one whose first character is outside a-h with    *)
(* "invalid column", else one whose second is outside 1-8 with "invalid    *)
(* row".  Stated of every slice of the line read last and of every square. *)
(***************************************************************************)
C16_SquareTextRoundTrip ==
    /\ \A t \in Tokens : TokenLaw(t)
    /\ \A p \in Squares : position_from_str(position_fmt(p)) = Ok(p)

\* A flagged queen move has been parsed and applied: the queen stands on the
\* square the token of the line names.
C16_Witness ==
    /\ moves = 2
    /\ Flagged(line)
    /\ line[1] = "Q"
    /\ position_fmt(white_queen_position) = SubSeq(line, 2, 3)

\* The step ended the game with WrongInput for the reason e and the line
\* read, and changed no square and no counter.
RejectedFor(e) ==
    /\ game_over' = WrongInput(e, line')
    /\ UNCHANGED <<white_king_position, white_queen_position,
                   black_king_position, moves>>

\* The reasons of the three parsing steps.
ParseReasons ==
    {"line is neither of length 3 nor length 4 with '#' at the end",
     "invalid chess piece", "invalid length", "invalid column", "invalid row"}

(***************************************************************************)
(* C17.  A step that reads a line which is neither 3 long nor 4 long with  *)
(* a final '#' ends the game with WrongInput for the length reason;        *)
(* otherwise one whose first character is not K or Q with "invalid chess   *)
(* piece"; otherwise one whose characters 2-3 are no square with the       *)
(* square parser's reason; each carries the line and changes no square and *)
(* no counter; a line that passes all three is not rejected for a parsing  *)
(* reason.                                                                 *)
(***************************************************************************)
C17_MalformedLineRejected ==
    [][ReadLine =>
          IF ~(Len(line') = 3 \/ (Len(line') = 4 /\ line'[4] = "#"))
          THEN RejectedFor("line is neither of length 3 nor length 4 with '#' at the end")
          ELSE IF line'[1] \notin {"K", "Q"}
          THEN RejectedFor("invalid chess piece")
          ELSE IF line'[2] \notin Files
          THEN RejectedFor("invalid column")
          ELSE IF line'[3] \notin Ranks
          THEN RejectedFor("invalid row")
          ELSE ~(game_over'.verdict = "WrongInput"
                 /\ game_over'.error_message \in ParseReasons)]_vars

\* The read of this step met the end of the input (read_line returns Ok(0)
\* and leaves the line empty) or failed.
ReadMetNoLine == ReadFails \/ Turn(<<>>)

(***************************************************************************)
(* C18.  While the game is Running with the counter below the limit, a     *)
(* read that meets the end of the input and a read that fails both have an *)
(* outcome (the game does not block): the game ends with WrongInput whose  *)
(* input text is empty, no square and no counter changes, and no step      *)
(* follows.                                                                *)
(***************************************************************************)
C18_NoLineEndsGame ==
    /\ []((game_over = Running /\ moves < moves_limit) =>
              (ENABLED ReadFails /\ ENABLED Turn(<<>>)))
    /\ [][/\ ReadMetNoLine =>
                /\ game_over'.verdict = "WrongInput"
                /\ game_over'.input = <<>>
                /\ game_over'.error_message # ""
                /\ UNCHANGED <<white_king_position, white_queen_position,
                               black_king_position, moves>>
          /\ (game_over.verdict = "WrongInput" /\ game_over.input = <<>>) =>
                UNCHANGED vars]_vars

\* The input ended after one accepted move.
C18_Witness ==
    /\ game_over =
           WrongInput("line is neither of length 3 nor length 4 with '#' at the end",
                      <<>>)
    /\ reads = 2
    /\ moves = 1

\* The reasons try_apply_move rejects a move for.
ApplyReasons ==
    {"king moves are not allowed", "king tried to move over the queen",
     "king tried to do impossible move", "king was not moved",
     "king tried to move too far",
     "white king tried to move next to the black king",
     "queen tried to do impossible move", "queen has not been moved",
     "queen tried to jump over white king", "queen tried to jump over black king"}

(***************************************************************************)
(* C19.  A move that try_apply_move rejects (a well-formed line that is    *)
(* not counted) ends the game with WrongInput for one of its reasons and   *)
(* leaves the three squares and the counter unchanged; an accepted queen   *)
(* move changes the queen's square and not the white king's, an accepted   *)
(* king move the white king's and not the queen's; the black king's square *)
(* changes only in a step that accepted a move and lets the game go on,    *)
(* and no square changes in a step that accepted no move.                  *)
(***************************************************************************)
C19_Frame ==
    [][/\ ((QueenLineRead \/ KingLineRead) /\ ~Accepted) =>
             /\ game_over'.verdict = "WrongInput"
             /\ game_over'.error_message \in ApplyReasons
             /\ UNCHANGED <<white_king_position, white_queen_position,
                            black_king_position, moves>>
       /\ (game_over'.verdict = "WrongInput"
              /\ game_over'.error_message \in ApplyReasons) =>
             UNCHANGED <<white_king_position, white_queen_position,
                         black_king_position, moves>>
       /\ (QueenLineRead /\ Accepted) =>
             /\ white_queen_position' = Target
             /\ white_queen_position' # white_queen_position
             /\ white_king_position' = white_king_position
       /\ (KingLineRead /\ Accepted) =>
             /\ white_king_position' = Target
             /\ white_king_position' # white_king_position
             /\ white_queen_position' = white_queen_position
       /\ black_king_position' # black_king_position =>
             Accepted /\ game_over' = Running
       /\ ~Accepted =>
             UNCHANGED <<white_king_position, white_queen_position,
                         black_king_position>>]_vars

\* After an accepted move and the black answer, a king move to a square next
\* to the black king has been rejected.
C19_Witness ==
    /\ game_over = WrongInput("white king tried to move next to the black king", line)
    /\ moves = 1
    /\ reads = 2
    /\ Adjacent(Parsed(SubSeq(line, 2, 3)), black_king_position)

\* The black king on bk is attacked by the white king on wk or the queen on
\* wq.
InCheck(wk, wq, bk) == Adjacent(bk, wk) \/ QueenSees(wk, wq, bk)

(***************************************************************************)
(* C20.  Whenever the game goes on after an accepted move, the black king  *)
(* has moved exactly one step to a square on the board that is not next to *)
(* the white king, holds neither the white king nor the queen, and is on   *)
(* no line of the queen that the white king does not interrupt; so in      *)
(* every state of a running game after the first move the black king is    *)
(* not in check.                                                           *)
(***************************************************************************)
C20_BlackResponseLegal ==
    [][/\ (Accepted /\ game_over' = Running) =>
             /\ black_king_position' \in Squares
             /\ Adjacent(black_king_position', black_king_position)
             /\ ~Adjacent(black_king_position', white_king_position')
             /\ black_king_position' # white_king_position'
             /\ black_king_position' # white_queen_position'
             /\ ~QueenSees(white_king_position', white_queen_position',
                           black_king_position')
       /\ (game_over' = Running /\ moves' >= 1) =>
             ~InCheck(white_king_position', white_queen_position',
                      black_king_position')]_vars

\* The black king has stepped out of a check and then answered a king move.
C20_Witness ==
    /\ game_over = Running
    /\ moves = 2
    /\ line[1] = "K"
    /\ white_king_position = Parsed(SubSeq(line, 2, 3))
    /\ ~InCheck(white_king_position, white_queen_position, black_king_position)

\* Square n is closed to the black king: the queen attacks it, it is next to
\* the white king or holds him, or it holds the queen with the white king
\* next to her.
Closed(wk, wq, n) ==
    \/ QueenSees(wk, wq, n)
    \/ Adjacent(n, wk)
    \/ n = wk
    \/ n = wq /\ Adjacent(wq, wk)

(***************************************************************************)
(* C21.  In a game started from three distinct squares, when play has      *)
(* returned Checkmate the black king is attacked by the white king or the  *)
(* queen, and every square of the board next to the black king is attacked *)
(* by the queen (the white king alone stopping her lines), next to or held *)
(* by the white king, or held by the queen with the white king next to     *)
(* her.                                                                    *)
(***************************************************************************)
C21_CheckmateSound ==
    game_over = Checkmate =>
        /\ InCheck(white_king_position, white_queen_position, black_king_position)
        /\ \A n \in Squares :
               Adjacent(n, black_king_position) =>
                   Closed(white_king_position, white_queen_position, n)

====
